---- MODULE Spec2Model ----
(***************************************************************************)
(* Model of the GFS wind-power pipeline of pipeline_example/src:           *)
(*   data_extractor.py  GFSDataExtractor (download, GRIB extraction,       *)
(*                      SQLite persistence, coarse country rankings,       *)
(*                      run_extraction orchestration)                      *)
(*   analysis.py        main (point-in-polygon country rankings)           *)
(*                                                                         *)
(* Four specifications share the variables:                                *)
(*   SpecGrib        download_direct and process_grib_file called on one   *)
(*                   file                                                  *)
(*   SpecRun         run_extraction, stepped per forecast hour             *)
(*   SpecStore       save_to_database, calculate_country_rankings and      *)
(*                   analysis.main, called one after the other             *)
(*   SpecConcurrent  the same calls made by two processes at once          *)
(***************************************************************************)
EXTENDS Integers, Sequences, FiniteSets, TLC

VARIABLES
    disk,               \* data/raw: path -> content of the file at that path
    grib_call,          \* the last direct call: its method, path and file content
    grib_result,        \* what the last process_grib_file call returned
    run_pc,             \* position of run_extraction
    cycles_to_process,  \* run_extraction: the list of cycles of this run
    cycle_idx,          \* run_extraction: index of the cycle being processed
    hour_idx,           \* run_extraction: index into FORECAST_HOURS
    cycle_data,         \* run_extraction: per-hour DataFrames of this cycle
    attempted,          \* (cycle, hour) pairs whose download this run tried
    downloaded,         \* (cycle, hour) pairs whose download this run got
    run_outcome,        \* cycle -> how the run ended for that cycle
    n_runs,             \* run_extraction calls made so far
    gfs_forecasts,      \* table gfs_forecasts, in rowid order
    country_rankings,   \* table country_rankings, in rowid order
    pc,                 \* process -> position inside a two-step store call
    frame,              \* process -> rows its ranking call read
    arg,                \* process -> (date, cycle) of its ranking call
    save_status,        \* how the last save_to_database call ended
    persisted,          \* key -> the DataFrames stored for it, in order
    saved_by,           \* process -> DataFrame it last stored
    last_ranking,       \* key -> the latest ranking call: rows read and written
    n_ops               \* store operations made so far

grib_vars == <<disk, grib_call, grib_result>>
run_vars == <<run_pc, cycles_to_process, cycle_idx, hour_idx, cycle_data,
              attempted, downloaded, run_outcome, n_runs>>
store_vars == <<gfs_forecasts, country_rankings, pc, frame, arg, save_status,
                persisted, saved_by, last_ranking, n_ops>>
vars == <<grib_vars, run_vars, store_vars>>

(***************************************************************************)
(* Configuration.  config.py is imported by data_extractor.py (line 19)    *)
(* but is not among the source files; the values follow the specification  *)
(* (horizon 0,6,12,18; cycles 00/06/12/18) and the map extent of           *)
(* analysis.py line 98.                                                    *)
(***************************************************************************)
FORECAST_HOURS == <<0, 6, 12, 18>>

EUROPE_BOUNDS == [lat_min |-> 35, lat_max |-> 70, lon_min |-> -10, lon_max |-> 40]

DateStr == "20240101"

Cycles == {"00", "06"}

(***************************************************************************)
(* Values.  A DataFrame cell that holds no number (NaN / None / SQL NULL). *)
(***************************************************************************)
NULL == -1000000000

RECURSIVE Gcd(_, _)
Gcd(a, b) == IF b = 0 THEN a ELSE Gcd(b, a % b)

Abs(a) == IF a < 0 THEN -a ELSE a

\* floor of the square root
ISqrt(n) == CHOOSE r \in 0..(n \div 10 + 10) : r * r <= n /\ (r + 1) * (r + 1) > n

(***************************************************************************)
(* Strings as character sequences, for the substring tests of the          *)
(* variable matching.                                                      *)
(***************************************************************************)
Lower(s) ==
    [i \in 1..Len(s) |->
        CASE s[i] = "U" -> "u" [] s[i] = "V" -> "v" [] s[i] = "T" -> "t"
          [] s[i] = "G" -> "g" [] s[i] = "R" -> "r" [] s[i] = "D" -> "d"
          [] OTHER -> s[i]]

\* Python's  sub in s
In(sub, s) ==
    \E i \in 0..(Len(s) - Len(sub)) :
        \A j \in 1..Len(sub) : s[i + j] = sub[j]

(***************************************************************************)
(* Data variables of a GRIB file as xarray/cfgrib presents them: a name,   *)
(* the phrases that occur in str(attrs).lower(), and the physical field    *)
(* whose values the variable carries.                                      *)
(***************************************************************************)
VU == [name |-> <<"u", "1", "0", "0">>, attrs |-> {}, field |-> "u"]
VV == [name |-> <<"v", "1", "0", "0">>, attrs |-> {}, field |-> "v"]
VT == [name |-> <<"t", "2", "m">>, attrs |-> {}, field |-> "t"]
VP == [name |-> <<"s", "p">>, attrs |-> {}, field |-> "p"]
VUa == [name |-> <<"U", "G", "R", "D">>,
        attrs |-> {"u-component of wind", "100 m above ground"}, field |-> "u"]
VVa == [name |-> <<"V", "G", "R", "D">>,
        attrs |-> {"v-component of wind", "100 m above ground"}, field |-> "v"]
VTa == [name |-> <<"T", "M", "P">>,
        attrs |-> {"temperature", "2 m above ground"}, field |-> "t"]
VGust == [name |-> <<"g", "u", "s", "t">>, attrs |-> {}, field |-> "g"]

\* the data_vars of the files considered, in iteration order
DataVarLists ==
    { <<VU, VV>>, <<VU, VV, VT>>, <<VU, VV, VT, VP>>, <<VP, VV, VU>>,
      <<VU, VT>>, <<VV, VT>>, <<VT, VP>>, <<VU>>, <<VGust, VP>>,
      <<VUa, VVa, VTa>>, <<VUa, VVa>>, <<VUa, VTa>>, <<VUa, VV>> }

\* a file's grid: latitudes north to south, longitudes west to east (0..360)
Latitudes == <<72, 61, 48>>
Longitudes == <<5, 12, 350>>

NoCell == <<NULL, NULL>>

\* the field values of a file (the same at every cell), u missing at nan_at
Winds == { <<3, 4>>, <<1, 1>> }
Thermo == { <<288, 101325>>, <<250, 90000>> }

\* fault: the stage of process_grib_file at which the file raises, if any
GribContents ==
    { [fault |-> "none", data_vars |-> dv, u |-> w[1], v |-> w[2],
       t |-> th[1], p |-> th[2], nan_at |-> n] :
        dv \in DataVarLists, w \in Winds, th \in Thermo, n \in {NoCell, <<61, 5>>} }
    \cup
    { [fault |-> f, data_vars |-> <<VU, VV, VT>>, u |-> 3, v |-> 4,
       t |-> 288, p |-> 101325, nan_at |-> NoCell] : f \in {"open", "extract"} }

(***************************************************************************)
(* process_grib_file, lines 135-231                                        *)
(***************************************************************************)
\* ds.sel(latitude=slice(lat_max, lat_min), longitude=slice(lon_min, lon_max))
SubsetLatitudes ==
    SelectSeq(Latitudes,
              LAMBDA y : y <= EUROPE_BOUNDS.lat_max /\ y >= EUROPE_BOUNDS.lat_min)

SubsetLongitudes ==
    SelectSeq(Longitudes,
              LAMBDA x : x >= EUROPE_BOUNDS.lon_min /\ x <= EUROPE_BOUNDS.lon_max)

VariableKeys == {"u_wind_100m", "v_wind_100m", "temp_2m"}

NoVar == [name |-> <<>>, attrs |-> {}, field |-> "none"]

NoVariables == [k \in VariableKeys |-> NoVar]

\* len(variables)
LenVariables(variables) == Cardinality({k \in VariableKeys : variables[k] # NoVar})

\* lines 153-164: one iteration of the match on the attributes
MatchAttrsStep(variables, dv) ==
    IF "u-component of wind" \in dv.attrs /\ "100 m above ground" \in dv.attrs
    THEN [variables EXCEPT !["u_wind_100m"] = dv]
    ELSE IF "v-component of wind" \in dv.attrs /\ "100 m above ground" \in dv.attrs
    THEN [variables EXCEPT !["v_wind_100m"] = dv]
    ELSE IF "temperature" \in dv.attrs /\ "2 m above ground" \in dv.attrs
    THEN [variables EXCEPT !["temp_2m"] = dv]
    ELSE variables

\* lines 168-174: one iteration of the match on the variable name
MatchNameStep(variables, dv) ==
    LET var_name == dv.name
        low == Lower(dv.name)
    IN  IF In(<<"u">>, low)
           /\ (In(<<"1", "0", "0">>, var_name) \/ In(<<"w", "i", "n", "d">>, low))
        THEN [variables EXCEPT !["u_wind_100m"] = dv]
        ELSE IF In(<<"v">>, low)
                /\ (In(<<"1", "0", "0">>, var_name) \/ In(<<"w", "i", "n", "d">>, low))
        THEN [variables EXCEPT !["v_wind_100m"] = dv]
        ELSE IF In(<<"t">>, low)
                /\ (In(<<"2", "m">>, low) \/ In(<<"t", "e", "m", "p">>, low))
        THEN [variables EXCEPT !["temp_2m"] = dv]
        ELSE variables

RECURSIVE MatchAttrs(_, _, _)
MatchAttrs(variables, dvs, i) ==
    IF i > Len(dvs) THEN variables
    ELSE MatchAttrs(MatchAttrsStep(variables, dvs[i]), dvs, i + 1)

RECURSIVE MatchNames(_, _, _)
MatchNames(variables, dvs, i) ==
    IF i > Len(dvs) THEN variables
    ELSE MatchNames(MatchNameStep(variables, dvs[i]), dvs, i + 1)

\* lines 149-174: the variables dict
ExtractVariables(dvs) ==
    LET first == MatchAttrs(NoVariables, dvs, 1)
    IN  IF LenVariables(first) < 3 THEN MatchNames(first, dvs, 1) ELSE first

\* the value a data variable carries at a cell
FieldValue(c, dv, cell) ==
    CASE dv.field = "u" -> IF cell = c.nan_at THEN NULL ELSE c.u
      [] dv.field = "v" -> c.v
      [] dv.field = "t" -> c.t
      [] dv.field = "p" -> c.p
      [] OTHER -> 0

\* line 184, np.sqrt(u**2 + v**2), in tenths of m/s rounded down
WindSpeed10(u, v) == ISqrt((u * u + v * v) * 100)

\* ideal-gas density p / (287.058 * T), in g/m3
IdealGasDensity(c) == (c.p * 1000) \div ((287058 * c.t) \div 1000)

\* the density of a derivation that follows the fields available
AirDensityByFields(c, variables) ==
    IF variables["temp_2m"] # NoVar /\ (\E i \in 1..Len(c.data_vars) : c.data_vars[i].field = "p")
    THEN IdealGasDensity(c)
    ELSE 1225

\* line 187: air_density = 1.225, in g/m3
AirDensity(c, variables) == 1225

\* line 190: 0.5 * air_density * wind_speed**3, in 1e-6 W/m2
WindPowerDensity(rho, speed10) == (rho * speed10 * speed10 * speed10) \div 2

\* lines 181-191 and 207-215: the value of one column of the row of a cell
ColumnValue(c, variables, col, cell) ==
    IF col = "wind_power_density"
    THEN LET u == FieldValue(c, variables["u_wind_100m"], cell)
             v == FieldValue(c, variables["v_wind_100m"], cell)
         IN  IF u = NULL \/ v = NULL THEN NULL
             ELSE WindPowerDensity(AirDensity(c, variables), WindSpeed10(u, v))
    ELSE FieldValue(c, variables[col], cell)

\* the columns of the DataFrame beyond date, cycle, hour, lat, lon
DfColumns(variables) ==
    {k \in VariableKeys : variables[k] # NoVar}
    \cup (IF variables["u_wind_100m"] # NoVar /\ variables["v_wind_100m"] # NoVar
          THEN {"wind_power_density"} ELSE {})

AllColumns == VariableKeys \cup {"wind_power_density"}

\* lines 198-215: the row of one cell; a column the frame lacks holds NULL
MakeRow(c, variables, date_str, cycle, forecast_hour, lat, lon) ==
    LET cols == DfColumns(variables)
        val(col) == IF col \in cols THEN ColumnValue(c, variables, col, <<lat, lon>>)
                    ELSE NULL
    IN  [forecast_date |-> date_str, cycle |-> cycle, forecast_hour |-> forecast_hour,
         lat |-> lat, lon |-> lon,
         u_wind_100m |-> val("u_wind_100m"), v_wind_100m |-> val("v_wind_100m"),
         temp_2m |-> val("temp_2m"), wind_power_density |-> val("wind_power_density")]

\* lines 196-217: rows in latitude-major order
RECURSIVE CellRows(_, _, _, _, _, _, _)
CellRows(c, variables, date_str, cycle, forecast_hour, i, j) ==
    IF i > Len(SubsetLatitudes) THEN <<>>
    ELSE IF j > Len(SubsetLongitudes)
    THEN CellRows(c, variables, date_str, cycle, forecast_hour, i + 1, 1)
    ELSE <<MakeRow(c, variables, date_str, cycle, forecast_hour,
                   SubsetLatitudes[i], SubsetLongitudes[j])>>
         \o CellRows(c, variables, date_str, cycle, forecast_hour, i, j + 1)

\* line 220: df.dropna() over the columns the frame has
DropNa(rows, cols) ==
    SelectSeq(rows, LAMBDA r : \A col \in cols : r[col] # NULL)

ReturnedNone == [ret |-> "None", columns |-> {}, rows |-> <<>>]

\* lines 137-227: the value process_grib_file returns for a file's content
ProcessResult(c, date_str, cycle, forecast_hour) ==
    IF c.fault # "none" THEN ReturnedNone          \* except Exception, line 225
    ELSE LET variables == ExtractVariables(c.data_vars)
         IN  IF LenVariables(variables) < 2 THEN ReturnedNone     \* line 176
             ELSE [ret |-> "df", columns |-> DfColumns(variables),
                   rows |-> DropNa(CellRows(c, variables, date_str, cycle,
                                            forecast_hour, 1, 1),
                                   DfColumns(variables))]

\* a clean-up that runs on the path that returns the DataFrame only
RemoveOnSuccessOnly(d, file_path, result) ==
    IF result.ret = "df" THEN [q \in (DOMAIN d) \ {file_path} |-> d[q]] ELSE d

\* lines 228-231: finally: if os.path.exists(file_path): os.remove(file_path)
FinallyRemove(d, file_path, result) ==
    IF file_path \in DOMAIN d THEN [q \in (DOMAIN d) \ {file_path} |-> d[q]] ELSE d


(***************************************************************************)
(* download_direct, lines 93-112                                           *)
(***************************************************************************)
\* line 103: data/raw/gfs_{date_str}_{cycle}_{forecast_hour:03d}.grb2
TempFile(date_str, cycle, forecast_hour) == <<date_str, cycle, forecast_hour>>

\* lines 104-105: the file is written (over any file already there)
WriteFile(d, file_path, c) ==
    [q \in (DOMAIN d) \cup {file_path} |-> IF q = file_path THEN c ELSE d[q]]

NoFiles == [q \in {} |-> [fault |-> "none"]]

NoCall == [op |-> "none", file_path |-> <<>>, existed |-> FALSE, content |-> {}]

GribInit ==
    /\ disk = NoFiles
    /\ grib_call = NoCall
    /\ grib_result = [ret |-> "pending", columns |-> {}, rows |-> <<>>]

(***************************************************************************)
(* The store: gfs_forecasts and country_rankings (lines 38-79)             *)
(***************************************************************************)
Keys == { <<DateStr, c>> : c \in Cycles }

KeyOf(row) == <<row.forecast_date, row.cycle>>

\* SELECT ... WHERE forecast_date = ? AND cycle = ?
RowsOfKey(table, k) == SelectSeq(table, LAMBDA r : KeyOf(r) = k)

\* DELETE ... WHERE forecast_date = ? AND cycle = ?
DeleteKey(table, k) == SelectSeq(table, LAMBDA r : KeyOf(r) # k)

GridRow(cycle, forecast_hour, lat, lon, wpd) ==
    [forecast_date |-> DateStr, cycle |-> cycle, forecast_hour |-> forecast_hour,
     lat |-> lat, lon |-> lon, u_wind_100m |-> 3, v_wind_100m |-> 4,
     temp_2m |-> 288, wind_power_density |-> wpd]

\* the DataFrames handed to save_to_database: one run's rows each
DfTie(cycle) ==
    [ret |-> "df", columns |-> AllColumns,
     rows |-> <<GridRow(cycle, 0, 61, 5, 4), GridRow(cycle, 0, 48, 12, 4)>>]
DfTwo(cycle) ==
    [ret |-> "df", columns |-> AllColumns,
     rows |-> <<GridRow(cycle, 0, 61, 5, 2), GridRow(cycle, 0, 58, 10, 6)>>]
DfUneven(cycle) ==
    [ret |-> "df", columns |-> AllColumns,
     rows |-> <<GridRow(cycle, 0, 48, 12, 2), GridRow(cycle, 6, 48, 12, 4),
                GridRow(cycle, 0, 49, 11, 6)>>]

DataFrames == UNION { {DfTie(c), DfTwo(c), DfUneven(c)} : c \in Cycles }

\* rationals <<numerator, denominator>> in lowest terms, denominator > 0
Rat(n, d) == LET g == Gcd(Abs(n), d) IN <<n \div g, d \div g>>
RatAdd(a, b) == Rat(a[1] * b[2] + b[1] * a[2], a[2] * b[2])
RatGeq(a, b) == a[1] * b[2] >= b[1] * a[2]

RECURSIVE SumWpd(_, _)
SumWpd(rows, i) ==
    IF i > Len(rows) THEN 0 ELSE rows[i].wind_power_density + SumWpd(rows, i + 1)

\* Series.mean() of wind_power_density over a group of rows (NULLs skipped)
MeanWpd(rows) ==
    LET valid == SelectSeq(rows, LAMBDA r : r.wind_power_density # NULL)
    IN  IF valid = <<>> THEN <<NULL, 1>> ELSE Rat(SumWpd(valid, 1), Len(valid))

\* lines 249-255 of save_to_database: the table after to_sql(if_exists='append');
\* a failed insert is rolled back by to_sql and leaves the table as it was
AppendForecasts(table, df, ok) == IF ok THEN table \o df.rows ELSE table

\* lines 279-292: the coarse country assignment
CoarseCountry(lat, lon) ==
    IF lat > 60 THEN "Norway"
    ELSE IF lat > 55 /\ lon < 15 THEN "Denmark"
    ELSE IF lat > 50 /\ lon < 5 THEN "United Kingdom"
    ELSE IF lat > 45 /\ lon < 10 THEN "France"
    ELSE IF lat > 45 /\ lon > 10 THEN "Germany"
    ELSE IF lat > 40 /\ lon > 20 THEN "Eastern Europe"
    ELSE "Other"

\* the order in which groupby(...).mean().reset_index() lists the groups
CountryOrder ==
    <<"Denmark", "Eastern Europe", "France", "Germany", "Norway", "Other",
      "United Kingdom">>

\* line 298: df.groupby('country')['wind_power_density'].mean().reset_index()
CoarseCountryAvg(rows) ==
    LET group(name) == SelectSeq(rows, LAMBDA r : CoarseCountry(r.lat, r.lon) = name)
        present == SelectSeq(CountryOrder, LAMBDA name : group(name) # <<>>)
    IN  [i \in 1..Len(present) |->
            [country |-> present[i], avg |-> MeanWpd(group(present[i]))]]

\* line 299 (analysis.py line 131): sort_values(..., ascending=False) with the
\* default kind, quicksort, which is not stable: the rows come out with
\* non-increasing averages, rows of equal average in any order
SortOrders(country_avg) ==
    { f \in [1..Len(country_avg) -> 1..Len(country_avg)] :
        /\ \A i, j \in 1..Len(country_avg) : i # j => f[i] # f[j]
        /\ \A i, j \in 1..Len(country_avg) :
              i < j => RatGeq(country_avg[f[i]].avg, country_avg[f[j]].avg) }

\* line 300, range(1, len + 1) (analysis.py line 132, index + 1): the rank of
\* the row at position i, positions counted from 1
RankOf(i) == i

\* lines 300-307 (analysis.py lines 132-153): the rows written for one run
RankingRows(country_avg, f, k) ==
    [i \in 1..Len(country_avg) |->
        [forecast_date |-> k[1], cycle |-> k[2],
         country |-> country_avg[f[i]].country,
         avg_wind_power_density |-> country_avg[f[i]].avg,
         rank |-> RankOf(i)]]

(***************************************************************************)
(* analysis.main: the country boundaries and the spatial join              *)
(***************************************************************************)
\* line 122: the polygons of the shapefile, as the grid points they contain
world ==
    { [name |-> "Norway", points |-> {<<5, 61>>}],
      [name |-> "Germany", points |-> {<<12, 48>>, <<11, 49>>}],
      [name |-> "France", points |-> {<<2, 47>>}] }

WorldOrder == <<"France", "Germany", "Norway">>

\* line 121: groupby(['lat', 'lon']).mean(): the mean of each location
LocationMean(rows, lat, lon) ==
    MeanWpd(SelectSeq(rows, LAMBDA r : r.lat = lat /\ r.lon = lon))

\* lines 124-128: Point(lon, lat) within the polygon, inner join
Joined(rows, name) ==
    { <<r.lat, r.lon>> : r \in { rows[i] : i \in 1..Len(rows) } }
    \cap { <<pt[2], pt[1]>> : pt \in UNION { w.points : w \in { x \in world : x.name = name } } }

RECURSIVE RatSum(_, _)
RatSum(rows, locs) ==
    IF locs = {} THEN <<0, 1>>
    ELSE LET l == CHOOSE x \in locs : TRUE
         IN  RatAdd(LocationMean(rows, l[1], l[2]), RatSum(rows, locs \ {l}))

\* line 130: joined_gdf.groupby('name')['wind_power_density'].mean()
PolygonCountryAvg(rows) ==
    LET present == SelectSeq(WorldOrder, LAMBDA name : Joined(rows, name) # {})
        mean(name) == LET s == RatSum(rows, Joined(rows, name))
                      IN  Rat(s[1], s[2] * Cardinality(Joined(rows, name)))
    IN  [i \in 1..Len(present) |-> [country |-> present[i], avg |-> mean(present[i])]]

\* lines 142-155: DELETE for the key, then the insert, committed together
ReplaceRankings(table, k, new_rows) == DeleteKey(table, k) \o new_rows

\* data_extractor.py line 310: to_sql(if_exists='append') alone
AppendRankings(table, k, new_rows) == table \o new_rows

(***************************************************************************)
(* Bounds                                                                  *)
(***************************************************************************)
MaxOps == 3         \* store calls per behaviour
MaxRuns == 2        \* run_extraction calls per behaviour

Procs == {1, 2}

NoDf == [ret |-> "None", columns |-> {}, rows |-> <<>>]

StoreInit ==
    /\ gfs_forecasts = <<>>
    /\ country_rankings = <<>>
    /\ pc = [p \in Procs |-> "idle"]
    /\ frame = [p \in Procs |-> <<>>]
    /\ arg = [p \in Procs |-> <<DateStr, "00">>]
    /\ save_status = [called |-> FALSE, failed |-> FALSE, raised |-> FALSE]
    /\ persisted = [k \in Keys |-> <<>>]
    /\ saved_by = [p \in Procs |-> NoDf]
    /\ last_ranking = [k \in Keys |-> [computed |-> FALSE, rows |-> <<>>,
                                      by |-> "none", frame |-> <<>>]]
    /\ n_ops = 0

RunInit ==
    /\ run_pc = "idle"
    /\ cycles_to_process = <<>>
    /\ cycle_idx = 1
    /\ hour_idx = 1
    /\ cycle_data = <<>>
    /\ attempted = {}
    /\ downloaded = {}
    /\ run_outcome = [c \in Cycles |-> "none"]
    /\ n_runs = 0

Init == GribInit /\ RunInit /\ StoreInit

(***************************************************************************)
(* save_to_database, lines 233-255                                         *)
(***************************************************************************)
\* lines 254-255: except Exception: logger.error(...); nothing is re-raised
\* and the method returns None as it does after a successful insert
SaveRaises(ok) == FALSE

SaveStatus(ok) == [called |-> TRUE, failed |-> ~ok, raised |-> SaveRaises(ok)]

PersistedAfter(df, ok) ==
    IF ok /\ df.rows # <<>>
    THEN [persisted EXCEPT ![KeyOf(df.rows[1])] = Append(@, df)]
    ELSE persisted

\* ok: whether to_sql succeeds
SaveToDatabase(p, df, ok) ==
    /\ pc[p] = "idle"
    /\ n_ops < MaxOps
    /\ gfs_forecasts' = AppendForecasts(gfs_forecasts, df, ok)
    /\ save_status' = SaveStatus(ok)
    /\ persisted' = PersistedAfter(df, ok)
    /\ saved_by' = IF ok THEN [saved_by EXCEPT ![p] = df] ELSE saved_by
    /\ n_ops' = n_ops + 1
    /\ UNCHANGED <<country_rankings, pc, frame, arg, last_ranking, grib_vars, run_vars>>

(***************************************************************************)
(* calculate_country_rankings, lines 257-316, in two steps: the SELECT     *)
(* and the insert are separate statements on the database                  *)
(***************************************************************************)
\* lines 260-273
CalculateCountryRankingsRead(p, k) ==
    /\ pc[p] = "idle"
    /\ n_ops < MaxOps
    /\ n_ops' = n_ops + 1
    /\ IF RowsOfKey(gfs_forecasts, k) = <<>>
       THEN UNCHANGED <<pc, frame, arg>>                  \* df.empty: return
       ELSE /\ pc' = [pc EXCEPT ![p] = "rank"]
            /\ frame' = [frame EXCEPT ![p] = RowsOfKey(gfs_forecasts, k)]
            /\ arg' = [arg EXCEPT ![p] = k]
    /\ UNCHANGED <<gfs_forecasts, country_rankings, save_status, persisted, saved_by,
                   last_ranking, grib_vars, run_vars>>

\* lines 275-316; ok: whether to_sql succeeds (a failure is logged, line 316)
CalculateCountryRankingsWrite(p, ok) ==
    /\ pc[p] = "rank"
    /\ \E f \in SortOrders(CoarseCountryAvg(frame[p])) :
          LET rows == RankingRows(CoarseCountryAvg(frame[p]), f, arg[p])
          IN  /\ country_rankings' =
                    IF ok THEN AppendRankings(country_rankings, arg[p], rows)
                    ELSE country_rankings
              /\ last_ranking' =
                    IF ok THEN [last_ranking EXCEPT ![arg[p]] =
                                    [computed |-> TRUE, rows |-> rows,
                                     by |-> "coarse", frame |-> frame[p]]]
                    ELSE last_ranking
    /\ pc' = [pc EXCEPT ![p] = "idle"]
    /\ frame' = [frame EXCEPT ![p] = <<>>]
    /\ UNCHANGED <<gfs_forecasts, arg, save_status, persisted, saved_by, n_ops,
                   grib_vars, run_vars>>

(***************************************************************************)
(* analysis.main, lines 53-157, in two steps: the SELECT on one            *)
(* connection (closed at line 64), the DELETE and insert on a second       *)
(***************************************************************************)
\* lines 61-68
AnalysisMainRead(p, k) ==
    /\ pc[p] = "idle"
    /\ n_ops < MaxOps
    /\ n_ops' = n_ops + 1
    /\ IF RowsOfKey(gfs_forecasts, k) = <<>>
       THEN UNCHANGED <<pc, frame, arg>>                  \* gfs_data.empty: return
       ELSE /\ pc' = [pc EXCEPT ![p] = "analysis"]
            /\ frame' = [frame EXCEPT ![p] = RowsOfKey(gfs_forecasts, k)]
            /\ arg' = [arg EXCEPT ![p] = k]
    /\ UNCHANGED <<gfs_forecasts, country_rankings, save_status, persisted, saved_by,
                   last_ranking, grib_vars, run_vars>>

\* lines 120-157; ok: whether the statements succeed (an exception leaves main
\* before con.commit(), so nothing of the transaction is kept)
AnalysisMainWrite(p, ok) ==
    /\ pc[p] = "analysis"
    /\ \E f \in SortOrders(PolygonCountryAvg(frame[p])) :
          LET rows == RankingRows(PolygonCountryAvg(frame[p]), f, arg[p])
          IN  /\ country_rankings' =
                    IF ok THEN ReplaceRankings(country_rankings, arg[p], rows)
                    ELSE country_rankings
              /\ last_ranking' =
                    IF ok THEN [last_ranking EXCEPT ![arg[p]] =
                                    [computed |-> TRUE, rows |-> rows,
                                     by |-> "polygon", frame |-> frame[p]]]
                    ELSE last_ranking
    /\ pc' = [pc EXCEPT ![p] = "idle"]
    /\ frame' = [frame EXCEPT ![p] = <<>>]
    /\ UNCHANGED <<gfs_forecasts, arg, save_status, persisted, saved_by, n_ops,
                   grib_vars, run_vars>>

StoreStep(p) ==
    \/ \E df \in DataFrames, ok \in BOOLEAN : SaveToDatabase(p, df, ok)
    \/ \E k \in Keys : CalculateCountryRankingsRead(p, k)
    \/ \E ok \in BOOLEAN : CalculateCountryRankingsWrite(p, ok)
    \/ \E k \in Keys : AnalysisMainRead(p, k)
    \/ \E ok \in BOOLEAN : AnalysisMainWrite(p, ok)

\* one process: the calls follow one another
StoreNext == StoreStep(1)

\* two processes on the same database file
ConcurrentNext == \E p \in Procs : StoreStep(p)

SpecStore == Init /\ [][StoreNext]_vars

SpecConcurrent == Init /\ [][ConcurrentNext]_vars

(***************************************************************************)
(* download_direct and process_grib_file called on their own               *)
(***************************************************************************)
\* lines 93-112; got: whether requests.get succeeds, c: the bytes received
DownloadDirect(date_str, cycle, forecast_hour, got, c) ==
    /\ disk' = IF got THEN WriteFile(disk, TempFile(date_str, cycle, forecast_hour), c)
               ELSE disk
    /\ grib_call' = [op |-> "download_direct",
                     file_path |-> TempFile(date_str, cycle, forecast_hour),
                     existed |-> got, content |-> IF got THEN {c} ELSE {}]
    /\ UNCHANGED <<grib_result, run_vars, store_vars>>

\* lines 135-231; a path with no file makes open_dataset raise (line 141)
ProcessGribFile(file_path, date_str, cycle, forecast_hour) ==
    LET existed == file_path \in DOMAIN disk
        result == IF existed
                  THEN ProcessResult(disk[file_path], date_str, cycle, forecast_hour)
                  ELSE ReturnedNone
    IN  /\ grib_call' = [op |-> "process_grib_file",
                         file_path |-> file_path, existed |-> existed,
                         content |-> IF existed THEN {disk[file_path]} ELSE {}]
        /\ grib_result' = result
        /\ disk' = FinallyRemove(disk, file_path, result)
        /\ UNCHANGED <<run_vars, store_vars>>

GribNext ==
    \/ \E got \in BOOLEAN, c \in GribContents :
          DownloadDirect(DateStr, "00", FORECAST_HOURS[1], got, c)
    \/ ProcessGribFile(TempFile(DateStr, "00", FORECAST_HOURS[1]),
                       DateStr, "00", FORECAST_HOURS[1])

SpecGrib == Init /\ [][GribNext]_vars

(***************************************************************************)
(* run_extraction, lines 318-370                                           *)
(***************************************************************************)
\* what get_available_cycles(date_str) may answer (config.py, line 325)
AvailableCycleLists == { <<>>, <<"00">>, <<"00", "06">> }

\* the bytes a download of the run may receive
RunContents ==
    { c \in GribContents :
        /\ c.u = 3 /\ c.t = 288 /\ c.nan_at = NoCell
        /\ c.data_vars \in { <<VU, VV, VT>>, <<VT, VP>> } }

\* whether process_grib_file yields a DataFrame for these bytes
Extractable(c) == ProcessResult(c, DateStr, "00", 0).ret = "df"

RECURSIVE ConcatRows(_, _)
ConcatRows(frames, i) ==
    IF i > Len(frames) THEN <<>> ELSE frames[i].rows \o ConcatRows(frames, i + 1)

\* line 360: pd.concat(cycle_data, ignore_index=True)
Concat(frames) ==
    [ret |-> "df", columns |-> UNION { frames[i].columns : i \in 1..Len(frames) },
     rows |-> ConcatRows(frames, 1)]

\* lines 318-335: cycle is the argument, "None" when it is not given
RunExtraction(cycle, available_cycles) ==
    /\ run_pc = "idle"
    /\ n_runs < MaxRuns
    /\ n_runs' = n_runs + 1
    /\ cycles_to_process' = IF cycle = "None" THEN available_cycles ELSE <<cycle>>
    /\ run_pc' = IF cycles_to_process' = <<>> THEN "idle" ELSE "hour"
    /\ cycle_idx' = 1
    /\ hour_idx' = 1
    /\ cycle_data' = <<>>
    /\ attempted' = {}
    /\ downloaded' = {}
    /\ run_outcome' = [c \in Cycles |-> "none"]
    /\ UNCHANGED <<grib_vars, store_vars>>

\* lines 338-349: one iteration of the loop over FORECAST_HOURS.  A download
\* that succeeds leaves the loop (break, line 345); one that fails goes on to
\* the next hour (continue, line 349).  Lines 351-356 follow the continue of a
\* test that holds whenever the break was not taken, so no iteration reaches
\* them: process_grib_file is not called and cycle_data stays empty.
RunForecastHour(got, c) ==
    /\ run_pc = "hour"
    /\ LET cycle == cycles_to_process[cycle_idx]
           forecast_hour == FORECAST_HOURS[hour_idx]
       IN  /\ attempted' = attempted \cup {<<cycle, forecast_hour>>}
           /\ IF got
              THEN /\ disk' = WriteFile(disk, TempFile(DateStr, cycle, forecast_hour), c)
                   /\ downloaded' = downloaded \cup {<<cycle, forecast_hour>>}
                   /\ run_pc' = "combine"
                   /\ UNCHANGED hour_idx
              ELSE /\ UNCHANGED <<disk, downloaded>>
                   /\ IF hour_idx < Len(FORECAST_HOURS)
                      THEN hour_idx' = hour_idx + 1 /\ UNCHANGED run_pc
                      ELSE run_pc' = "combine" /\ UNCHANGED hour_idx
    /\ UNCHANGED <<grib_call, grib_result, cycles_to_process, cycle_idx, cycle_data,
                   run_outcome, n_runs, store_vars>>

\* lines 358-370, then the next cycle of the loop of line 332
RunCombine ==
    /\ run_pc = "combine"
    /\ LET cycle == cycles_to_process[cycle_idx]
           k == <<DateStr, cycle>>
       IN  IF cycle_data # <<>>
           THEN \E ok_save \in BOOLEAN, ok_rank \in BOOLEAN :
                  LET combined_df == Concat(cycle_data)
                      table == AppendForecasts(gfs_forecasts, combined_df, ok_save)
                      df == RowsOfKey(table, k)
                  IN  /\ gfs_forecasts' = table
                      /\ save_status' = SaveStatus(ok_save)
                      /\ persisted' = PersistedAfter(combined_df, ok_save)
                      /\ \E f \in SortOrders(CoarseCountryAvg(df)) :
                            LET rows == RankingRows(CoarseCountryAvg(df), f, k)
                                written == ok_rank /\ df # <<>>
                            IN  /\ country_rankings' =
                                      IF written
                                      THEN AppendRankings(country_rankings, k, rows)
                                      ELSE country_rankings
                                /\ last_ranking' =
                                      IF written
                                      THEN [last_ranking EXCEPT ![k] =
                                               [computed |-> TRUE, rows |-> rows,
                                                by |-> "coarse", frame |-> df]]
                                      ELSE last_ranking
                      /\ run_outcome' = [run_outcome EXCEPT ![cycle] = "completed"]
                      /\ UNCHANGED <<pc, frame, arg, saved_by, n_ops>>
           ELSE /\ run_outcome' = [run_outcome EXCEPT ![cycle] = "failed"]
                /\ UNCHANGED store_vars
    /\ IF cycle_idx < Len(cycles_to_process)
       THEN /\ cycle_idx' = cycle_idx + 1
            /\ hour_idx' = 1
            /\ run_pc' = "hour"
       ELSE /\ run_pc' = "idle"
            /\ UNCHANGED <<cycle_idx, hour_idx>>
    /\ cycle_data' = <<>>
    /\ UNCHANGED <<grib_vars, cycles_to_process, attempted, downloaded, n_runs>>

RunNext ==
    \/ \E cycle \in Cycles \cup {"None"}, available_cycles \in AvailableCycleLists :
          RunExtraction(cycle, available_cycles)
    \/ \E got \in BOOLEAN, c \in RunContents : RunForecastHour(got, c)
    \/ RunCombine

SpecRun == Init /\ [][RunNext]_vars

(***************************************************************************)
(* Properties                                                              *)
(***************************************************************************)
\* the content of the file the last direct call was about
CallContent == CHOOSE c \in grib_call.content : TRUE

Processed == grib_call.op = "process_grib_file"

\* C1: storing the same rows R twice for one (forecast_date, cycle) leaves
\* gfs_forecasts with exactly one copy of R for that key: the rows of the key
\* after the second pass are those after the first.
C1_ReingestIdempotent ==
    \A k \in Keys : \A df \in DataFrames :
        persisted[k] \in { <<df>>, <<df, df>> } => RowsOfKey(gfs_forecasts, k) = df.rows

\* C2: a run ends a cycle in the failure branch only if no forecast hour of
\* the cycle downloaded a file that process_grib_file turns into a DataFrame;
\* with one such hour the aggregate is stored and the cycle completes.
C2_FailedOnlyIfNoHourSucceeded ==
    \A c \in Cycles :
        run_outcome[c] = "failed" =>
            ~ \E h \in { FORECAST_HOURS[i] : i \in 1..Len(FORECAST_HOURS) } :
                /\ <<c, h>> \in downloaded
                /\ Extractable(disk[TempFile(DateStr, c, h)])

\* C3: when a cycle's aggregate is built or the cycle is declared failed,
\* every hour of FORECAST_HOURS has been attempted for that cycle.
C3_AllHoursAttemptedBeforeAggregation ==
    \A c \in Cycles :
        run_outcome[c] # "none" =>
            \A i \in 1..Len(FORECAST_HOURS) : <<c, FORECAST_HOURS[i]>> \in attempted

\* C4: after ranking computations for a key, country_rankings holds for that
\* key exactly the rows of the most recent computation, at most one row per
\* country.
C4_RankingsReplaced ==
    \A k \in Keys :
        last_ranking[k].computed =>
            /\ RowsOfKey(country_rankings, k) = last_ranking[k].rows
            /\ \A i, j \in 1..Len(RowsOfKey(country_rankings, k)) :
                  RowsOfKey(country_rankings, k)[i].country
                    = RowsOfKey(country_rankings, k)[j].country => i = j

\* C5: a failed write of save_to_database is surfaced to its caller (the
\* call does not return as after a success), so that a caller can stop before
\* the rankings.
C5_SaveFailureSurfaced == save_status.failed => save_status.raised

\* C6: when process_grib_file has returned, on any exit path, no file exists
\* at the path it was given.
C6_SourceFileDiscarded == Processed => grib_call.file_path \notin DOMAIN disk

\* C6 witness: a call on an existing file that raised inside the try block
C6_Witness ==
    /\ Processed /\ grib_call.existed
    /\ CallContent.fault # "none"
    /\ grib_result.ret = "None"
    /\ grib_call.file_path \notin DOMAIN disk

\* C7: on a readable file, process_grib_file returns a DataFrame exactly when
\* both the u and the v wind component were matched; temperature plays no part.
C7_WindComponentsMandatory ==
    (Processed /\ grib_call.existed /\ CallContent.fault = "none") =>
        LET variables == ExtractVariables(CallContent.data_vars)
        IN  (grib_result.ret = "df") <=>
                (variables["u_wind_100m"] # NoVar /\ variables["v_wind_100m"] # NoVar)

\* the place of a country in the order the groups are listed before the sort
InputPosition(name) == CHOOSE i \in 1..Len(CountryOrder) : CountryOrder[i] = name

\* C8: the ranking rows of a run carry the ranks 1..K in order, with
\* non-increasing averages, countries of equal average in their input order.
C8_DenseRanksStableTies ==
    \A k \in Keys :
        LET rows == last_ranking[k].rows
        IN  /\ \A i \in 1..Len(rows) : rows[i].rank = i
            /\ \A i, j \in 1..Len(rows) :
                  i < j => /\ RatGeq(rows[i].avg_wind_power_density,
                                     rows[j].avg_wind_power_density)
                           /\ rows[i].avg_wind_power_density
                                = rows[j].avg_wind_power_density
                              => InputPosition(rows[i].country)
                                   < InputPosition(rows[j].country)

AllIdle == \A p \in Procs : pc[p] = "idle"

\* C9: once two concurrent runs for the same key have completed, the rows of
\* that key in gfs_forecasts are those of exactly one of the runs, and
\* country_rankings holds one row per country for the key.
C9_OneRunPerKey ==
    \A p, q \in Procs :
        (/\ p # q /\ AllIdle
         /\ saved_by[p] # NoDf /\ saved_by[q] # NoDf
         /\ KeyOf(saved_by[p].rows[1]) = KeyOf(saved_by[q].rows[1])) =>
            LET k == KeyOf(saved_by[p].rows[1])
                ranks == RowsOfKey(country_rankings, k)
            IN  /\ RowsOfKey(gfs_forecasts, k) \in {saved_by[p].rows, saved_by[q].rows}
                /\ \A i, j \in 1..Len(ranks) :
                      ranks[i].country = ranks[j].country => i = j

HasField(c, field) == \E i \in 1..Len(c.data_vars) : c.data_vars[i].field = field

\* the file of the last call carried temperature and surface pressure, and
\* the call returned rows with a wind power density
DerivedWithThermo ==
    /\ Processed /\ grib_call.existed
    /\ grib_result.ret = "df"
    /\ "wind_power_density" \in grib_result.columns
    /\ HasField(CallContent, "t") /\ HasField(CallContent, "p")

InUserBox(lat, lon) ==
    LET lon_min == EUROPE_BOUNDS.lon_min % 360
        lon_max == EUROPE_BOUNDS.lon_max % 360
    IN  /\ lat >= EUROPE_BOUNDS.lat_min /\ lat <= EUROPE_BOUNDS.lat_max
        /\ IF lon_min > lon_max
           THEN lon >= lon_min \/ lon <= lon_max
           ELSE lon >= lon_min /\ lon <= lon_max

\* C11: the cells process_grib_file returns rows for are exactly the cells of
\* the grid inside the user box (no value of the file being missing).
C11_SubsetIsUserBox ==
    (Processed /\ grib_call.existed /\ grib_result.ret = "df"
       /\ "wind_power_density" \in grib_result.columns
       /\ CallContent.nan_at = NoCell) =>
        { <<grib_result.rows[i].lat, grib_result.rows[i].lon>> :
              i \in 1..Len(grib_result.rows) }
          = { cell \in { <<Latitudes[i], Longitudes[j]>> :
                             i \in 1..Len(Latitudes), j \in 1..Len(Longitudes) } :
                  InUserBox(cell[1], cell[2]) }

\* the rows of a frame that a ranking strategy attributes to a country
Attributed(rows, by, name) ==
    IF by = "coarse"
    THEN SelectSeq(rows, LAMBDA r : CoarseCountry(r.lat, r.lon) = name)
    ELSE SelectSeq(rows, LAMBDA r : <<r.lat, r.lon>> \in Joined(rows, name))

\* C12: every average written to country_rankings is the arithmetic mean of
\* wind_power_density over all rows of the run attributed to that country,
\* under the coarse classifier and under the point-in-polygon join alike.
C12_AverageIsMeanOverRows ==
    \A k \in Keys :
        last_ranking[k].computed =>
            \A i \in 1..Len(last_ranking[k].rows) :
                last_ranking[k].rows[i].avg_wind_power_density
                  = MeanWpd(Attributed(last_ranking[k].frame, last_ranking[k].by,
                                       last_ranking[k].rows[i].country))

\* C13: when run_extraction has returned, no file that the run downloaded
\* under data/raw is left on disk.
C13_NoTempFileOutlivesRun ==
    run_pc = "idle" =>
        \A ch \in downloaded : TempFile(DateStr, ch[1], ch[2]) \notin DOMAIN disk

====
